---- MODULE Spec2Model ----
(***************************************************************************)
(* The I2C transport of the BNO080 sensor-hub driver                        *)
(* (src/src/interface/i2c.rs): I2cInterface with its scratch buffer         *)
(* seg_recv_buf and its counter received_packet_count, and the operations   *)
(* read_packet, read_with_timeout, send_and_receive_packet, write_packet,   *)
(* with read_packet_header and read_sized_packet that they call.            *)
(*                                                                          *)
(* The driver is sequential.  An operation talks to its environment (the    *)
(* I2C port, the delay source) several times; the model takes one step per  *)
(* bus transaction: the step holds the transaction and all the code that    *)
(* follows it up to the next transaction or to the return.  pc is the       *)
(* position of the running operation, and no other action is enabled        *)
(* while an operation is under way.                                         *)
(*                                                                          *)
(* Rust slices are 0-based, sequences here are 1-based: byte i of a         *)
(* buffer is element i+1.  An out-of-range slice index panics in Rust; the  *)
(* model ends the run in pc = "panic".                                      *)
(***************************************************************************)
EXTENDS Integers, Sequences, FiniteSets, TLC

\* ---------------------------------------------------------------- constants

PACKET_HEADER_LENGTH == 4

SEG_RECV_BUF_LEN == 240

MAX_SEGMENT_READ == SEG_RECV_BUF_LEN

\* Top-level operations one run performs.
MaxCalls == 2

\* Packets the device holds for the host at the start of a run.
MaxPackets == 1

\* A packet that arrives during a long wait arrives at one of the last
\* LateWindow polls the window allows.
LateWindow == 2

ADVERTISING_PACKET_FULL ==
  <<
    20, 129, 0, 1, 0, 1, 4, 0, 0, 0, 0, 128,
    6, 49, 46, 48, 46, 48, 0, 2, 2, 0, 1, 3,
    2, 255, 127, 4, 2, 0, 1, 5, 2, 255, 127, 8,
    5, 83, 72, 84, 80, 0, 6, 1, 0, 9, 8, 99,
    111, 110, 116, 114, 111, 108, 0, 1, 4, 1, 0, 0,
    0, 8, 11, 101, 120, 101, 99, 117, 116, 97, 98, 108,
    101, 0, 6, 1, 1, 9, 7, 100, 101, 118, 105, 99,
    101, 0, 1, 4, 2, 0, 0, 0, 8, 10, 115, 101,
    110, 115, 111, 114, 104, 117, 98, 0, 6, 1, 2, 9,
    8, 99, 111, 110, 116, 114, 111, 108, 0, 6, 1, 3,
    9, 12, 105, 110, 112, 117, 116, 78, 111, 114, 109, 97,
    108, 0, 7, 1, 4, 9, 10, 105, 110, 112, 117, 116,
    87, 97, 107, 101, 0, 6, 1, 5, 9, 12, 105, 110,
    112, 117, 116, 71, 121, 114, 111, 82, 118, 0, 128, 6,
    49, 46, 49, 46, 48, 0, 129, 100, 248, 16, 245, 4,
    243, 16, 241, 16, 251, 5, 250, 5, 252, 17, 239, 2,
    1, 10, 2, 10, 3, 10, 4, 10, 5, 14, 6, 10,
    7, 16, 8, 12, 9, 14, 10, 8, 11, 8, 12, 6,
    13, 6, 14, 6, 15, 16, 16, 5, 17, 12, 18, 6,
    19, 6, 20, 16, 21, 16, 22, 16, 23, 0, 24, 8,
    25, 6, 26, 0, 27, 0, 28, 6, 29, 0, 30, 16,
    31, 0, 32, 0, 33, 0, 34, 0, 35, 0, 36, 0,
    37, 0, 38, 0, 39, 0, 40, 14, 41, 12, 42, 14
  >>

\* How the device heads the segments it sends after the header read:
\* "resend" repeats the packet's own header on the first segment and heads the
\* later ones with a continuation header carrying the packet's channel and
\* sequence bytes; "remainder" heads every segment with a continuation header
\* whose bytes 2 and 3 are zero, as FakePacket remainders are built.
Styles == {"resend", "remainder"}

Packet(l, f, s) == [len |-> l, flag |-> f, style |-> s]

\* The packets the device may hold, by decoded length, continuation flag of
\* the header and style: nothing (0, with and without the flag), a length
\* below that of a header, an anomalous header-only length, the shortest and the longest single-read packet, the
\* first multi-segment length, the advertising packet, a three-segment packet,
\* and the largest length 15 bits can hold.
SilentPackets == {Packet(0, 0, "resend"), Packet(0, 1, "resend")}

Packets ==
  { Packet(0, 0, "resend"), Packet(0, 1, "resend"),
    Packet(3, 0, "resend"), Packet(4, 1, "resend"),
    Packet(5, 0, "resend"), Packet(239, 1, "remainder"),
    Packet(240, 0, "resend"), Packet(240, 1, "remainder"),
    Packet(276, 1, "resend"), Packet(276, 0, "remainder"),
    Packet(477, 1, "remainder"), Packet(477, 0, "resend"),
    Packet(32767, 1, "resend") }

\* The packets that may arrive while read_with_timeout waits: an anomalous
\* header-only length, a single-read packet, the first multi-segment length
\* and the advertising packet.
ArrivingPackets ==
  { Packet(4, 1, "resend"), Packet(5, 0, "resend"),
    Packet(240, 1, "remainder"), Packet(276, 1, "resend") }

Call(o, cap, ms, slen) == [op |-> o, cap |-> cap, ms |-> ms, slen |-> slen]

\* The calls a caller may make: the operation, the capacity of the buffer it
\* passes, max_ms (a u8) and the length of the bytes it sends.
ReadPacketCalls == {Call("read_packet", cap, 0, 0) : cap \in {3, 4, 238, 272, 480}}

ReadWithTimeoutCalls ==
  {Call("read_with_timeout", 480, ms, 0) : ms \in {0, 1, 2, 3}}
    \cup {Call("read_with_timeout", 238, 2, 0)}

SendAndReceiveCalls ==
  {Call("send_and_receive_packet", cap, 0, 21) : cap \in {4, 272, 480}}

WritePacketCalls == {Call("write_packet", 0, 0, slen) : slen \in {0, 21}}

\* The long waits: read_with_timeout on a source that has nothing to send,
\* up to the largest max_ms a u8 holds.
LongWaitCalls ==
  {Call("read_with_timeout", 480, ms, 0) : ms \in {0, 1, 10, 128, 254, 255}}

\* The waits during which a packet may arrive, from none to the longest a u8
\* allows.
LateWaitCalls ==
  {Call("read_with_timeout", 480, ms, 0) : ms \in {0, 1, 2, 3, 10, 254, 255}}

\* Error values the I2C port may report.
Errors == {"NACK", "ARB"}

\* Headers with which a device spoils a segment: they decode to 0 and to 4.
FaultHeaders == {<<0, 0, 0, 0>>, <<4, 128, 2, 9>>}

\* The buffer the caller passes: cap bytes, none of them zero.
Dirty(cap) == [i \in 1..cap |-> 170]

NoPacket == [len |-> 0, flag |-> 0, style |-> "none"]

\* ------------------------------------------------------------------ helpers

\* SensorCommon::parse_packet_header: the 16-bit little-endian length field
\* with the continuation flag (bit 15) cleared.
parse_packet_header(packet) ==
  IF Len(packet) >= PACKET_HEADER_LENGTH
  THEN (packet[1] + 256 * packet[2]) % 32768
  ELSE 0

\* A zero_buffer that leaves the slice as it is.
zero_buffer_Skipped(buf) == buf

\* zero_buffer(buf): every byte of the slice set to 0.
zero_buffer(buf) == [i \in 1..Len(buf) |-> 0]

\* A zeroing that stops after the first byte of the slice.
ZeroPrefix_FirstByteOnly(buf, n) ==
  [i \in 1..Len(buf) |-> IF i <= n /\ i = 1 THEN 0 ELSE buf[i]]

\* A buffer whose slice [..n] went through zero_buffer.
ZeroPrefix(buf, n) == [i \in 1..Len(buf) |-> IF i <= n THEN 0 ELSE buf[i]]

\* A reader that leaves the scratch header as the last transaction left it.
zero_recv_packet_header_Skipped(sb) == sb

\* zero_recv_packet_header: zero_buffer(&mut seg_recv_buf[..PACKET_HEADER_LENGTH]).
zero_recv_packet_header(sb) == ZeroPrefix(sb, PACKET_HEADER_LENGTH)

\* The port's read(address, &mut buf[..n]) storing data (n bytes, or none).
Store(buf, data) ==
  [i \in 1..Len(buf) |-> IF i <= Len(data) THEN data[i] ELSE buf[i]]

\* A reader that calls read_sized_packet for a header-only length too.
HasBody_Inclusive(plen) == plen >= PACKET_HEADER_LENGTH

\* A reader that takes every non-zero length for a packet with a body.
HasBody_AnyLength(plen) == plen > 0

\* read_packet and send_and_receive_packet call read_sized_packet.
HasBody(plen) == plen > PACKET_HEADER_LENGTH

\* A reader that counts only the packets that have a body.
CountsAsPacket_BodyOnly(plen) == plen > PACKET_HEADER_LENGTH

\* read_packet and send_and_receive_packet count the packet.
CountsAsPacket(plen) == plen > 0

\* A loop test that is off by one.
KeepPolling_Inclusive(delay, ms) == delay <= ms

\* The loop test of read_with_timeout.
KeepPolling(delay, ms) == delay < ms

\* A loop body that sleeps without counting the sleep.
NextDelay_Stuck(delay) == delay

\* read_with_timeout: total_delay += 1, on a u8.
NextDelay(delay) == (delay + 1) % 256

\* read_sized_packet takes the single-read path.
SingleReadPath(total_packet_len) == total_packet_len < MAX_SEGMENT_READ

\* A single read that asks for the body alone.
SingleReadLen_BodyOnly(total_packet_len) == total_packet_len - PACKET_HEADER_LENGTH

\* The length of the single read: packet_recv_buf[..total_packet_len].
SingleReadLen(total_packet_len) == total_packet_len

\* A segment loop that gives up on a zero header only.
IsProtocolFault_ZeroOnly(promised_packet_len) == promised_packet_len = 0

\* The segment loop gives up on the header of the segment just read.
IsProtocolFault(promised_packet_len) == promised_packet_len <= PACKET_HEADER_LENGTH

\* A segment read that is not cut to the scratch buffer.
segment_read_len_Unbounded(remaining) == remaining + PACKET_HEADER_LENGTH

\* A segment read that leaves no room for the segment's header.
segment_read_len_NoHeader(remaining) ==
  IF remaining > MAX_SEGMENT_READ THEN MAX_SEGMENT_READ ELSE remaining

\* segment_read_len of one loop iteration of read_sized_packet.
segment_read_len(remaining) ==
  LET whole_segment_length == remaining + PACKET_HEADER_LENGTH
  IN  IF whole_segment_length > MAX_SEGMENT_READ
      THEN MAX_SEGMENT_READ
      ELSE whole_segment_length

\* A transcription that copies every segment from its first byte.
transcribe_start_idx_KeepsHeader(already) == 0

transcribe_start_idx(already) == IF already > 0 THEN PACKET_HEADER_LENGTH ELSE 0

\* A transcription that takes the header off the first segment too.
transcribe_len_DropsHeader(already, seglen) == seglen - PACKET_HEADER_LENGTH

\* A transcription that counts the header of every segment in.
transcribe_len_WithHeader(already, seglen) == seglen

transcribe_len(already, seglen) ==
  IF already > 0 THEN seglen - PACKET_HEADER_LENGTH ELSE seglen

\* A loop that takes the header of a segment for body bytes read.
body_read_len_WholeSegment(seglen) == seglen

\* body_read_len of one loop iteration: the segment without its header.
body_read_len(seglen) == seglen - PACKET_HEADER_LENGTH

\* A poll loop that takes a header-only length for "no data yet".
NoDataYet_HeaderOnly(read_size) == read_size <= PACKET_HEADER_LENGTH

\* read_with_timeout: `0 == read_size`, no data available yet.
NoDataYet(read_size) == read_size = 0

\* packet_recv_buf[already..already+tlen].copy_from_slice(&seg_recv_buf[start..start+tlen])
Transcribe(out, already, sb, start, tlen) ==
  [i \in 1..Len(out) |->
     IF i > already /\ i <= already + tlen THEN sb[start + (i - already)] ELSE out[i]]

\* ------------------------------------------------------------------- device

\* Byte i (0-based) of the packet the device holds.  The 276-byte packet with
\* the continuation flag set is the advertising packet of the tests; any other
\* has its length field, a channel, a sequence number, and body bytes that
\* are non-zero and differ from place to place.
OrigByte(pk, i) ==
  IF pk.len = 276 /\ pk.flag = 1 THEN ADVERTISING_PACKET_FULL[i + 1]
  ELSE CASE i = 0 -> pk.len % 256
         [] i = 1 -> (pk.len \div 256) + 128 * pk.flag
         [] i = 2 -> 2
         [] i = 3 -> (pk.len % 200) + 1
         [] OTHER -> ((i + pk.len) % 251) + 1

OrigHeader(pk) == [i \in 1..PACKET_HEADER_LENGTH |-> OrigByte(pk, i - 1)]

OrigPacket(pk) == [i \in 1..pk.len |-> OrigByte(pk, i - 1)]

\* The continuation header of a segment sent when `sent` body bytes went
\* before: the bytes still to come plus this header, and the flag.
ContHeader(pk, sent) ==
  LET rest == pk.len - sent
  IN  << rest % 256,
         ((rest \div 256) % 128) + 128,
         IF pk.style = "resend" THEN OrigByte(pk, 2) ELSE 0,
         IF pk.style = "resend" THEN OrigByte(pk, 3) ELSE 0 >>

SegmentHeader(pk, sent) ==
  IF pk.style = "resend" /\ sent = 0 THEN OrigHeader(pk) ELSE ContHeader(pk, sent)

\* The n bytes of the segment the device sends when `sent` body bytes went
\* before, under header hdr.
SegmentBytes(pk, sent, n, hdr) ==
  [i \in 1..n |->
     IF i <= PACKET_HEADER_LENGTH THEN hdr[i]
     ELSE OrigByte(pk, sent + i - 1)]

\* What a bus read of n bytes may come to.  res is "ok" (n bytes stored),
\* "nostore" (success reported, nothing stored: FakeI2cPort with nothing to
\* send) or an error value.
Outcome(r, d, dv) == [res |-> r, data |-> d, dev |-> dv]

IsErr(o) == o.res \in Errors

HeaderReadOutcomes(d, pks) ==
  {Outcome(e, <<>>, d) : e \in Errors}
    \cup
  (IF d.avail = 0
   THEN {Outcome("nostore", <<>>, [d EXCEPT !.cur = NoPacket, !.sent = 0])}
   ELSE {Outcome("ok", OrigHeader(pk), [avail |-> d.avail - 1, cur |-> pk, sent |-> 0])
           : pk \in pks})

\* A header read that finds a packet just arrived.
ArrivalOutcomes(d) ==
  {Outcome("ok", OrigHeader(pk), [avail |-> d.avail, cur |-> pk, sent |-> 0])
     : pk \in ArrivingPackets}

BodyReadOutcomes(d, n) ==
  LET next == [d EXCEPT !.sent = d.sent + (n - PACKET_HEADER_LENGTH)]
  IN  {Outcome(e, <<>>, d) : e \in Errors}
        \cup {Outcome("nostore", <<>>, d)}
        \cup {Outcome("ok", SegmentBytes(d.cur, d.sent, n, SegmentHeader(d.cur, d.sent)), next)}
        \cup {Outcome("ok", SegmentBytes(d.cur, d.sent, n, h), next) : h \in FaultHeaders}

WriteOutcomes == {"ok"} \cup Errors

\* ------------------------------------------------------------------- state

VARIABLES
  seg_recv_buf,           \* I2cInterface.seg_recv_buf
  received_packet_count,  \* I2cInterface.received_packet_count
  op,                     \* the operation under way
  pc,                     \* its position
  recv_buf,               \* the caller's buffer (recv_buf / packet_recv_buf)
  max_ms,                 \* read_with_timeout's max_ms
  total_delay,            \* read_with_timeout's total_delay (u8)
  send_len,               \* length of send_buf / packet of the write operations
  packet_len,             \* packet_len of read_packet / send_and_receive_packet
  total_packet_len,       \* read_sized_packet's argument (0: not called)
  remaining_body_len,     \* read_sized_packet's local
  already_read_len,       \* read_sized_packet's local
  ret,                    \* what the operation returned
  dev,                    \* the device behind the port
  bus_log,                \* history: the bus transactions and sleeps of this call
  rp_start,               \* history: length of bus_log when the current receive began
  count0,                 \* history: received_packet_count when it began
  buf0,                   \* history: the caller's buffer when it began
  fault,                  \* history: this call took the protocol-fault branch
  prev_fault,             \* history: the call before this one did
  calls                   \* history: operations called so far

vars ==
  << seg_recv_buf, received_packet_count, op, pc, recv_buf, max_ms, total_delay,
     send_len, packet_len, total_packet_len, remaining_body_len, already_read_len,
     ret, dev, bus_log, rp_start, count0, buf0, fault, prev_fault, calls >>

NoRet == [kind |-> "none", val |-> 0, err |-> "-"]
Ok(n) == [kind |-> "ok", val |-> n, err |-> "-"]
Err(e) == [kind |-> "err", val |-> 0, err |-> e]
Panicked == [kind |-> "panic", val |-> 0, err |-> "-"]

\* The entries of bus_log: a bus read (issued at position `at`, of len bytes,
\* with its result and the bytes stored), a bus write, a delay_ms(len).
ReadEntry(n, o) ==
  [kind |-> "read", at |-> pc, len |-> n, res |-> o.res, data |-> o.data]
WriteEntry(n, r) ==
  [kind |-> "write", at |-> pc, len |-> n, res |-> r, data |-> <<>>]
SleepEntry(ms) ==
  [kind |-> "sleep", at |-> pc, len |-> ms, res |-> "ok", data |-> <<>>]

\* I2cInterface::new: a zeroed scratch buffer and a zero counter.  The device
\* holds up to MaxPackets packets.
Init ==
  /\ seg_recv_buf = [i \in 1..SEG_RECV_BUF_LEN |-> 0]
  /\ received_packet_count = 0
  /\ op = "none"
  /\ pc = "idle"
  /\ recv_buf = <<>>
  /\ max_ms = 0
  /\ total_delay = 0
  /\ send_len = 0
  /\ packet_len = 0
  /\ total_packet_len = 0
  /\ remaining_body_len = 0
  /\ already_read_len = 0
  /\ ret = NoRet
  /\ dev \in {[avail |-> k, cur |-> NoPacket, sent |-> 0] : k \in 0..MaxPackets}
  /\ bus_log = <<>>
  /\ rp_start = 0
  /\ count0 = 0
  /\ buf0 = <<>>
  /\ fault = FALSE
  /\ prev_fault = FALSE
  /\ calls = 0

\* ------------------------------------------------- how a step hands over

\* The variables a call never changes once it has begun.
CallFrame == << op, max_ms, send_len, calls, prev_fault >>

\* The locals of read_sized_packet.
SizedFrame == << total_packet_len, remaining_body_len, already_read_len >>

\* The operation goes on at position p.
Continue(p, log) ==
  /\ pc' = p
  /\ bus_log' = log
  /\ UNCHANGED << ret, received_packet_count, total_delay, rp_start, count0, buf0 >>

\* An operation that takes a failed bus transaction for "no data".
Fail_Swallowed(e, log) ==
  /\ pc' = "done"
  /\ ret' = Ok(0)
  /\ bus_log' = log
  /\ UNCHANGED << received_packet_count, total_delay, rp_start, count0, buf0 >>

\* An operation that counts the packet whose body it failed to read.
Fail_Counted(e, log) ==
  /\ pc' = "done"
  /\ ret' = Err(e)
  /\ bus_log' = log
  /\ received_packet_count' =
       IF CountsAsPacket(packet_len) THEN received_packet_count + 1 ELSE received_packet_count
  /\ UNCHANGED << total_delay, rp_start, count0, buf0 >>

\* `?` on a failed bus transaction: the operation returns Err(Error::Comm(e)).
Fail(e, log) ==
  /\ pc' = "done"
  /\ ret' = Err(e)
  /\ bus_log' = log
  /\ UNCHANGED << received_packet_count, total_delay, rp_start, count0, buf0 >>

\* A slice index out of range.
Panic(log) ==
  /\ pc' = "panic"
  /\ ret' = Panicked
  /\ bus_log' = log
  /\ UNCHANGED << received_packet_count, total_delay, rp_start, count0, buf0 >>

\* The end of read_packet (and of send_and_receive_packet) once received_len
\* is known: the counter, Ok(received_len); and, when read_with_timeout made
\* the call, the rest of its loop body, the loop test and its return.
FinishReceive(plen, received_len, out, log) ==
  LET count == IF CountsAsPacket(plen) THEN received_packet_count + 1 ELSE received_packet_count
      slept == Append(log, SleepEntry(1))
      delay == NextDelay(total_delay)
  IN  /\ received_packet_count' = count
      /\ IF op = "read_with_timeout" /\ NoDataYet(received_len)
         THEN /\ total_delay' = delay
              /\ bus_log' = slept
              /\ IF KeepPolling(delay, max_ms)
                 THEN /\ pc' = "read_header"
                      /\ ret' = ret
                      /\ rp_start' = Len(slept)
                      /\ count0' = count
                      /\ buf0' = out
                 ELSE /\ pc' = "done"
                      /\ ret' = Ok(0)
                      /\ UNCHANGED << rp_start, count0, buf0 >>
         ELSE /\ pc' = "done"
              /\ ret' = Ok(received_len)
              /\ bus_log' = log
              /\ UNCHANGED << total_delay, rp_start, count0, buf0 >>

\* read_sized_packet(total, recv_buf) up to its first bus read: the locals,
\* the zeroed first four bytes of the caller's buffer, the choice of path, and
\* the slice packet_recv_buf[..total] of the single read.
EnterSized(total, log) ==
  /\ total_packet_len' = total
  /\ remaining_body_len' = total - PACKET_HEADER_LENGTH
  /\ already_read_len' = 0
  /\ IF Len(recv_buf) < PACKET_HEADER_LENGTH
     THEN /\ recv_buf' = recv_buf
          /\ Panic(log)
     ELSE /\ recv_buf' = ZeroPrefix(recv_buf, PACKET_HEADER_LENGTH)
          /\ IF SingleReadPath(total)
             THEN IF SingleReadLen(total) > Len(recv_buf)
                  THEN Panic(log)
                  ELSE Continue("single_read", log)
             ELSE Continue("segment_read", log)

\* read_packet and send_and_receive_packet after the header read succeeded.
AfterHeader(plen, log) ==
  /\ packet_len' = plen
  /\ fault' = fault
  /\ IF HasBody(plen)
     THEN EnterSized(plen, log)
     ELSE /\ UNCHANGED << recv_buf, SizedFrame >>
          /\ FinishReceive(plen, plen, recv_buf, log)

\* ------------------------------------------------------------------ calls

Idle == pc \in {"idle", "done"} /\ calls < MaxCalls

BeginCall(o, cap, ms, slen, p) ==
  /\ Idle
  /\ op' = o
  /\ pc' = p
  /\ recv_buf' = Dirty(cap)
  /\ max_ms' = ms
  /\ total_delay' = 0
  /\ send_len' = slen
  /\ packet_len' = 0
  /\ total_packet_len' = 0
  /\ remaining_body_len' = 0
  /\ already_read_len' = 0
  /\ bus_log' = <<>>
  /\ count0' = received_packet_count
  /\ buf0' = Dirty(cap)
  /\ fault' = FALSE
  /\ prev_fault' = fault
  /\ calls' = calls + 1
  /\ UNCHANGED << seg_recv_buf, received_packet_count, dev >>

CallReadPacket ==
  \E c \in ReadPacketCalls :
    /\ BeginCall(c.op, c.cap, c.ms, c.slen, "read_header")
    /\ rp_start' = 0
    /\ ret' = NoRet

\* read_with_timeout up to its first read_packet: total_delay = 0 and the
\* first loop test.
CallReadWithTimeout ==
  \E c \in ReadWithTimeoutCalls :
    /\ BeginCall(c.op, c.cap, c.ms, c.slen,
                 IF KeepPolling(0, c.ms) THEN "read_header" ELSE "done")
    /\ rp_start' = 0
    /\ ret' = IF KeepPolling(0, c.ms) THEN NoRet ELSE Ok(0)

CallLongWait ==
  \E c \in LongWaitCalls :
    /\ BeginCall(c.op, c.cap, c.ms, c.slen,
                 IF KeepPolling(0, c.ms) THEN "read_header" ELSE "done")
    /\ rp_start' = 0
    /\ ret' = IF KeepPolling(0, c.ms) THEN NoRet ELSE Ok(0)

\* A send_and_receive_packet that goes to the header read without the write.
CallSendAndReceivePacket_ReadsFirst ==
  \E c \in SendAndReceiveCalls :
    /\ BeginCall(c.op, c.cap, c.ms, c.slen, "sar_header")
    /\ rp_start' = 0
    /\ ret' = NoRet

\* A wait on a reader that new() has just made.
CallLateWait ==
  \E c \in LateWaitCalls :
    /\ calls = 0
    /\ BeginCall(c.op, c.cap, c.ms, c.slen,
                 IF KeepPolling(0, c.ms) THEN "read_header" ELSE "done")
    /\ rp_start' = 0
    /\ ret' = IF KeepPolling(0, c.ms) THEN NoRet ELSE Ok(0)

CallSendAndReceivePacket ==
  \E c \in SendAndReceiveCalls :
    /\ BeginCall(c.op, c.cap, c.ms, c.slen, "sar_write")
    /\ rp_start' = 1
    /\ ret' = NoRet

CallWritePacket ==
  \E c \in WritePacketCalls :
    /\ BeginCall(c.op, c.cap, c.ms, c.slen, "write")
    /\ rp_start' = 0
    /\ ret' = NoRet

\* ------------------------------------------------------------------ steps

\* read_packet: read_packet_header (the scratch header zeroed, a 4-byte read),
\* parse_packet_header, and on to read_sized_packet or to the return.
ReadPacketHeaderGot(outcomes) ==
  /\ pc = "read_header"
  /\ LET zeroed == zero_recv_packet_header(seg_recv_buf)
     IN  \E o \in outcomes :
           LET log == Append(bus_log, ReadEntry(PACKET_HEADER_LENGTH, o))
               buf == Store(zeroed, o.data)
           IN  /\ dev' = o.dev
               /\ IF IsErr(o)
                  THEN /\ seg_recv_buf' = zeroed
                       /\ Fail(o.res, log)
                       /\ UNCHANGED << recv_buf, packet_len, SizedFrame, fault >>
                  ELSE /\ seg_recv_buf' = buf
                       /\ AfterHeader(
                            parse_packet_header(SubSeq(buf, 1, PACKET_HEADER_LENGTH)), log)
  /\ UNCHANGED CallFrame

ReadPacketHeaderFrom(pks) == ReadPacketHeaderGot(HeaderReadOutcomes(dev, pks))

ReadPacketHeader == ReadPacketHeaderFrom(Packets)

\* The same step against a source that has no packet to send.
PollSilentSource == ReadPacketHeaderFrom(SilentPackets)

\* The same step when a packet arrives late in the window of a wait.
PollArrival ==
  /\ op = "read_with_timeout"
  /\ total_delay + LateWindow >= max_ms
  /\ ReadPacketHeaderGot(ArrivalOutcomes(dev))

\* read_sized_packet, single-read path: one read of total_packet_len bytes
\* into the caller's buffer.
SingleRead ==
  /\ pc = "single_read"
  /\ \E o \in BodyReadOutcomes(dev, SingleReadLen(total_packet_len)) :
       LET log == Append(bus_log, ReadEntry(SingleReadLen(total_packet_len), o))
           out == Store(recv_buf, o.data)
       IN  /\ dev' = o.dev
           /\ IF IsErr(o)
              THEN /\ Fail(o.res, log)
                   /\ UNCHANGED << recv_buf, already_read_len >>
              ELSE /\ recv_buf' = out
                   /\ already_read_len' = total_packet_len
                   /\ FinishReceive(packet_len, total_packet_len, out, log)
  /\ UNCHANGED << seg_recv_buf, packet_len, total_packet_len, remaining_body_len, fault >>
  /\ UNCHANGED CallFrame

\* read_sized_packet, one iteration of the segment loop.
SegmentRead ==
  /\ pc = "segment_read"
  /\ LET n == segment_read_len(remaining_body_len)
         zeroed == zero_recv_packet_header(seg_recv_buf)
     IN  \E o \in BodyReadOutcomes(dev, n) :
           LET log == Append(bus_log, ReadEntry(n, o))
               buf == Store(zeroed, o.data)
               promised_packet_len ==
                 parse_packet_header(SubSeq(buf, 1, PACKET_HEADER_LENGTH))
               start == transcribe_start_idx(already_read_len)
               tlen == transcribe_len(already_read_len, n)
               out == Transcribe(recv_buf, already_read_len, buf, start, tlen)
               already == already_read_len + tlen
               remaining == remaining_body_len - body_read_len(n)
           IN  /\ dev' = o.dev
               /\ IF IsErr(o)
                  THEN /\ seg_recv_buf' = zeroed
                       /\ Fail(o.res, log)
                       /\ UNCHANGED << recv_buf, already_read_len, remaining_body_len, fault >>
                  ELSE /\ seg_recv_buf' = buf
                       /\ IF IsProtocolFault(promised_packet_len)
                          THEN /\ fault' = TRUE
                               /\ UNCHANGED << recv_buf, already_read_len, remaining_body_len >>
                               /\ FinishReceive(packet_len, 0, recv_buf, log)
                          ELSE IF \/ already > Len(recv_buf)
                                  \/ start + tlen > Len(seg_recv_buf)
                          THEN /\ Panic(log)
                               /\ UNCHANGED << recv_buf, already_read_len, remaining_body_len, fault >>
                          ELSE /\ recv_buf' = out
                               /\ already_read_len' = already
                               /\ remaining_body_len' = remaining
                               /\ fault' = fault
                               /\ IF remaining > 0
                                  THEN Continue("segment_read", log)
                                  ELSE FinishReceive(packet_len, already, out, log)
  /\ UNCHANGED << packet_len, total_packet_len >>
  /\ UNCHANGED CallFrame

\* send_and_receive_packet: the write, then the scratch header and the whole
\* of recv_buf zeroed.
SendWrite ==
  /\ pc = "sar_write"
  /\ \E r \in WriteOutcomes :
       LET log == Append(bus_log, WriteEntry(send_len, r))
       IN  IF r \in Errors
           THEN /\ Fail(r, log)
                /\ UNCHANGED << seg_recv_buf, recv_buf >>
           ELSE /\ seg_recv_buf' = zero_recv_packet_header(seg_recv_buf)
                /\ recv_buf' = zero_buffer(recv_buf)
                /\ Continue("sar_header", log)
  /\ UNCHANGED << dev, packet_len, SizedFrame, fault >>
  /\ UNCHANGED CallFrame

\* send_and_receive_packet: the 4-byte header read, parse_packet_header, and
\* on to read_sized_packet or to the return.
SendHeaderRead ==
  /\ pc = "sar_header"
  /\ \E o \in HeaderReadOutcomes(dev, Packets) :
       LET log == Append(bus_log, ReadEntry(PACKET_HEADER_LENGTH, o))
           buf == Store(seg_recv_buf, o.data)
       IN  /\ dev' = o.dev
           /\ IF IsErr(o)
              THEN /\ Fail(o.res, log)
                   /\ UNCHANGED << seg_recv_buf, recv_buf, packet_len, SizedFrame, fault >>
              ELSE /\ seg_recv_buf' = buf
                   /\ AfterHeader(
                        parse_packet_header(SubSeq(buf, 1, PACKET_HEADER_LENGTH)), log)
  /\ UNCHANGED CallFrame

\* write_packet: one bus write.
WritePacket ==
  /\ pc = "write"
  /\ \E r \in WriteOutcomes :
       LET log == Append(bus_log, WriteEntry(send_len, r))
       IN  IF r \in Errors
           THEN Fail(r, log)
           ELSE /\ pc' = "done"
                /\ ret' = Ok(0)
                /\ bus_log' = log
                /\ UNCHANGED << received_packet_count, total_delay, rp_start, count0, buf0 >>
  /\ UNCHANGED << seg_recv_buf, recv_buf, dev, packet_len, SizedFrame, fault >>
  /\ UNCHANGED CallFrame

Next ==
  \/ CallReadPacket
  \/ CallReadWithTimeout
  \/ CallSendAndReceivePacket
  \/ CallWritePacket
  \/ ReadPacketHeader
  \/ SingleRead
  \/ SegmentRead
  \/ SendWrite
  \/ SendHeaderRead
  \/ WritePacket

Spec == Init /\ [][Next]_vars

\* Long waits on a silent source.
NextLongWait ==
  \/ CallLongWait
  \/ PollSilentSource

SpecLongWait == Init /\ [][NextLongWait]_vars

\* Long waits on a source that is silent until, late in the window, a packet
\* arrives or not.
NextLateArrival ==
  \/ CallLateWait
  \/ PollSilentSource
  \/ PollArrival
  \/ SingleRead
  \/ SegmentRead

SpecLateArrival == Init /\ [][NextLateArrival]_vars

\* ------------------------------------------------------- reading the history

\* The bus transactions of the receive under way: the read_packet that is
\* running or ran last, or the read half of send_and_receive_packet.
RpLog == SubSeq(bus_log, rp_start + 1, Len(bus_log))

IsRead(e) == e.kind = "read"

\* A delay_ms(ms).
IsSleep(e, ms) == e.kind = "sleep" /\ e.len = ms

\* A read that stored all the bytes asked for.
Delivered(e) == IsRead(e) /\ e.res = "ok" /\ Len(e.data) = e.len

\* The length the header of a read decodes to: that of the bytes stored, or 0
\* when none were (the header region is zeroed before each such read).
DecodedLen(e) == IF e.res = "ok" THEN parse_packet_header(e.data) ELSE 0

RECURSIVE Bodies(_)
\* The body bytes (those after the first 4) of the reads in entries, in order.
Bodies(entries) ==
  IF entries = <<>> THEN <<>>
  ELSE SubSeq(entries[1].data, PACKET_HEADER_LENGTH + 1, Len(entries[1].data))
         \o Bodies(Tail(entries))

\* --------------------------------------------------------------------- C1

\* C1: when read_packet's header read decodes a length L with 4 < L < 240, all
\* its bus reads succeed and the caller's buffer holds L bytes, the call
\* issues exactly one more bus read, of exactly L bytes, returns L, and
\* recv_buf[0..L] is what that read delivered (its first 4 bytes included).
C1_SingleReadDeliversPacket ==
  ( /\ op = "read_packet"
    /\ pc \in {"done", "panic"}
    /\ packet_len > PACKET_HEADER_LENGTH
    /\ packet_len < MAX_SEGMENT_READ
    /\ Len(recv_buf) >= packet_len
    /\ \A i \in 1..Len(bus_log) : bus_log[i].res = "ok" )
  => /\ pc = "done"
     /\ Len(bus_log) = 2
     /\ IsRead(bus_log[1]) /\ bus_log[1].len = PACKET_HEADER_LENGTH
     /\ Delivered(bus_log[2]) /\ bus_log[2].len = packet_len
     /\ ret = Ok(packet_len)
     /\ SubSeq(recv_buf, 1, packet_len) = bus_log[2].data
     /\ SubSeq(recv_buf, 1, PACKET_HEADER_LENGTH)
          = SubSeq(bus_log[2].data, 1, PACKET_HEADER_LENGTH)

C1_Witness ==
  /\ op = "read_packet"
  /\ pc = "done"
  /\ packet_len = 239
  /\ Len(recv_buf) = 272
  /\ ret = Ok(239)
  /\ recv_buf[1] = 239
  /\ recv_buf[240] = 170

\* --------------------------------------------------------------------- C2

\* C2: when read_sized_packet has read a packet of L >= 240 bytes with every
\* bus read succeeding and every segment header decoding to more than 4,
\* recv_buf[0..4] is the header of the first segment and recv_buf[4..L] is
\* the body bytes of the segments in the order read, nothing of a later
\* segment's header among them, no body byte skipped or doubled.  The same
\* holds of recv_buf[0..already_read_len] after every segment on the way.
C2_SegmentsReassembled ==
  ( /\ pc \in {"segment_read", "done"}
    /\ total_packet_len >= MAX_SEGMENT_READ
    /\ Len(RpLog) >= 2
    /\ \A i \in 1..Len(RpLog) :
         /\ Delivered(RpLog[i])
         /\ i > 1 => DecodedLen(RpLog[i]) > PACKET_HEADER_LENGTH )
  => LET segs == Tail(RpLog)
     IN  /\ SubSeq(recv_buf, 1, PACKET_HEADER_LENGTH)
              = SubSeq(segs[1].data, 1, PACKET_HEADER_LENGTH)
         /\ SubSeq(recv_buf, PACKET_HEADER_LENGTH + 1, already_read_len) = Bodies(segs)
         /\ pc = "done" => /\ already_read_len = total_packet_len
                           /\ ret = Ok(total_packet_len)

C2_Witness ==
  /\ op = "read_packet"
  /\ pc = "done"
  /\ total_packet_len = 477
  /\ ret = Ok(477)
  /\ Len(RpLog) = 4
  /\ \A i \in 2..4 : DecodedLen(RpLog[i]) > PACKET_HEADER_LENGTH

\* --------------------------------------------------------------------- C3

\* The device sent its packet as C3 has it: the header read and the first
\* segment carried the packet's own header, every later segment a header
\* decoding to more than 4, and every read delivered.
SentInSegments(pk) ==
  /\ Len(RpLog) >= 2
  /\ \A i \in 1..Len(RpLog) : Delivered(RpLog[i])
  /\ RpLog[1].data = OrigHeader(pk)
  /\ SubSeq(RpLog[2].data, 1, PACKET_HEADER_LENGTH) = OrigHeader(pk)
  /\ \A i \in 3..Len(RpLog) : DecodedLen(RpLog[i]) > PACKET_HEADER_LENGTH

\* C3: round trip.  A packet of L > 4 bytes that the device sends in segments
\* of at most 240 bytes comes out of read_packet whole: the call returns L and
\* recv_buf[0..L] is the packet byte for byte; the advertising packet gives
\* 276 and a byte 0 of 0x14.
C3_RoundTrip ==
  ( /\ op = "read_packet"
    /\ pc \in {"done", "panic"}
    /\ dev.cur.len > PACKET_HEADER_LENGTH
    /\ Len(recv_buf) >= dev.cur.len
    /\ SentInSegments(dev.cur) )
  => /\ pc = "done"
     /\ ret = Ok(dev.cur.len)
     /\ SubSeq(recv_buf, 1, dev.cur.len) = OrigPacket(dev.cur)
     /\ \A i \in 1..Len(RpLog) : RpLog[i].len <= MAX_SEGMENT_READ
     /\ dev.cur = Packet(276, 1, "resend")
          => /\ ret.val = 276
             /\ recv_buf[1] = 20
             /\ SubSeq(recv_buf, 1, 276) = ADVERTISING_PACKET_FULL

C3_Witness ==
  /\ op = "read_packet"
  /\ pc = "done"
  /\ dev.cur = Packet(276, 1, "resend")
  /\ SentInSegments(dev.cur)
  /\ ret = Ok(276)
  /\ Len(RpLog) = 3
  /\ recv_buf[276] = 14

\* --------------------------------------------------------------------- C4

\* C4: whatever was called and whatever the device answered, no bus read is
\* handed a buffer of more than 240 bytes.
C4_ReadsWithinCeiling ==
  \A i \in 1..Len(bus_log) :
    IsRead(bus_log[i]) => bus_log[i].len <= SEG_RECV_BUF_LEN

C4_Witness ==
  /\ packet_len = 32767
  /\ Len(RpLog) >= 3
  /\ RpLog[3].len = SEG_RECV_BUF_LEN

\* --------------------------------------------------------------------- C5

\* C5 as stated: with a buffer of at least total_length - 4 bytes,
\* read_sized_packet never indexes the buffer out of range.
C5_AsStated ==
  ( /\ total_packet_len > PACKET_HEADER_LENGTH
    /\ Len(recv_buf) >= total_packet_len - PACKET_HEADER_LENGTH )
  => pc # "panic"

\* C5, amended: with a buffer of at least total_length bytes,
\* read_sized_packet never indexes the buffer out of range, on the single-read
\* path and on the segment path, and what it has written stays within it.
C5_CapacityOfTotalLength ==
  ( /\ total_packet_len > PACKET_HEADER_LENGTH
    /\ Len(recv_buf) >= total_packet_len )
  => /\ pc # "panic"
     /\ already_read_len <= Len(recv_buf)

C5_Witness ==
  /\ pc = "done"
  /\ total_packet_len = 477
  /\ Len(recv_buf) = 480
  /\ already_read_len = 477
  /\ recv_buf[477] # 170
  /\ recv_buf[478] = 170

\* --------------------------------------------------------------------- C6

\* C6: when the header read of read_packet decodes to n <= 4 (0 for the
\* all-zero header), read_packet returns n, the header read is the only bus
\* transaction of the call, and the caller's buffer is as it was.
C6_HeaderOnly ==
  ( /\ op = "read_packet"
    /\ Len(bus_log) >= 1
    /\ ~ IsErr(bus_log[1])
    /\ DecodedLen(bus_log[1]) <= PACKET_HEADER_LENGTH )
  => /\ pc = "done"
     /\ ret = Ok(DecodedLen(bus_log[1]))
     /\ Len(bus_log) = 1
     /\ IsRead(bus_log[1]) /\ bus_log[1].len = PACKET_HEADER_LENGTH
     /\ recv_buf = buf0

C6_Witness ==
  /\ op = "read_packet"
  /\ pc = "done"
  /\ bus_log[1].res = "ok"
  /\ DecodedLen(bus_log[1]) = 4
  /\ ret = Ok(4)

\* --------------------------------------------------------------------- C7

\* Every header read of the call decoded to 0 and none failed.
SourceSilent ==
  \A i \in 1..Len(bus_log) :
    IsRead(bus_log[i]) => ~ IsErr(bus_log[i]) /\ DecodedLen(bus_log[i]) = 0

Count(kind) == Cardinality({i \in 1..Len(bus_log) : bus_log[i].kind = kind})

\* C7: read_with_timeout(max_ms = N) on a source whose headers all decode to
\* 0 returns Ok(0) after exactly N polls and exactly N sleeps of 1 ms, a
\* sleep after each poll.
C7_SilentTimeout ==
  ( /\ op = "read_with_timeout"
    /\ pc = "done"
    /\ SourceSilent )
  => /\ ret = Ok(0)
     /\ Count("read") = max_ms
     /\ Count("sleep") = max_ms
     /\ Len(bus_log) = 2 * max_ms
     /\ \A i \in 1..max_ms :
          /\ IsRead(bus_log[2 * i - 1]) /\ bus_log[2 * i - 1].len = PACKET_HEADER_LENGTH
          /\ IsSleep(bus_log[2 * i], 1)

C7_Witness ==
  /\ op = "read_with_timeout"
  /\ pc = "done"
  /\ SourceSilent
  /\ max_ms = 255
  /\ Count("read") = 255
  /\ ret = Ok(0)

\* --------------------------------------------------------------------- C8

\* C8: a bus transaction that fails is the last thing its call does: no bus
\* transaction and no sleep comes after it, and the call has returned the
\* error value the bus reported.
C8_FirstErrorEndsCall ==
  \A i \in 1..Len(bus_log) :
    IsErr(bus_log[i])
      => /\ i = Len(bus_log)
         /\ pc = "done"
         /\ ret = Err(bus_log[i].res)

C8_Witness ==
  /\ op = "read_with_timeout"
  /\ max_ms = 3
  /\ total_delay = 1
  /\ Len(bus_log) = 3
  /\ bus_log[3].res = "ARB"
  /\ ret = Err("ARB")

\* --------------------------------------------------------------------- C9

\* A segment read of the loop whose header decodes to 4 or less.
FaultySegment(e) ==
  /\ IsRead(e)
  /\ e.at = "segment_read"
  /\ ~ IsErr(e)
  /\ DecodedLen(e) <= PACKET_HEADER_LENGTH

\* C9: on a segment whose header decodes to 4 or less read_sized_packet
\* returns Ok(0) at once: read_packet and send_and_receive_packet return
\* Ok(0) with that read their last bus transaction, read_with_timeout takes
\* it for an empty poll and sleeps; nothing panics and recv_buf is not
\* written past what was read.  And the read_packet called next starts with
\* a 4-byte header read.
C9_FaultReturnsZero ==
  /\ \A i \in 1..Len(bus_log) :
       FaultySegment(bus_log[i])
         => /\ fault
            /\ IF op = "read_with_timeout"
               THEN /\ i < Len(bus_log)
                    /\ IsSleep(bus_log[i + 1], 1)
                    /\ i + 1 = Len(bus_log) => pc \in {"read_header", "done"}
                    /\ (i + 1 = Len(bus_log) /\ pc = "done") => ret = Ok(0)
               ELSE /\ i = Len(bus_log)
                    /\ pc = "done"
                    /\ ret = Ok(0)
                    /\ already_read_len <= Len(recv_buf)
  /\ (prev_fault /\ op = "read_packet" /\ Len(bus_log) >= 1)
       => /\ IsRead(bus_log[1])
          /\ bus_log[1].at = "read_header"
          /\ bus_log[1].len = PACKET_HEADER_LENGTH

C9_Witness ==
  /\ prev_fault
  /\ received_packet_count = 1
  /\ op = "read_packet"
  /\ pc = "done"
  /\ Len(bus_log) = 1
  /\ IsRead(bus_log[1])
  /\ bus_log[1].len = PACKET_HEADER_LENGTH

\* -------------------------------------------------------------------- C10

\* C10 as stated: read_packet has counted the packet whenever the header
\* decoded to a non-zero length, and has not when it decoded to 0.
C10_AsStated ==
  ( /\ op = "read_packet"
    /\ pc = "done"
    /\ Len(bus_log) >= 1
    /\ ~ IsErr(bus_log[1]) )
  => received_packet_count = count0 + (IF DecodedLen(bus_log[1]) > 0 THEN 1 ELSE 0)

\* C10, amended: a read_packet that returns Ok has counted the packet, once,
\* when the header decoded to a non-zero length, and has left the counter as
\* it was when the header decoded to 0.
C10_CountedOnOk ==
  ( /\ op \in {"read_packet", "read_with_timeout"}
    /\ pc = "done"
    /\ ret.kind = "ok"
    /\ Len(RpLog) >= 1
    /\ IsRead(RpLog[1]) )
  => received_packet_count = count0 + (IF DecodedLen(RpLog[1]) > 0 THEN 1 ELSE 0)

C10_Witness ==
  /\ op = "read_packet"
  /\ pc = "done"
  /\ ret = Ok(0)
  /\ fault
  /\ DecodedLen(bus_log[1]) = 276
  /\ count0 = 0
  /\ received_packet_count = 1

\* -------------------------------------------------------------------- C11

\* C11 as stated: received_packet_count never goes below what it was when the
\* call began, and a read_packet or send_and_receive_packet call that has
\* moved it has moved it by one and returned a byte count above 0; a call
\* that reports 0 bytes (nothing to read, or a protocol fault) has not.
C11_AsStated ==
  /\ received_packet_count >= count0
  /\ ( /\ op \in {"read_packet", "send_and_receive_packet"}
       /\ pc = "done"
       /\ received_packet_count # count0 )
     => /\ received_packet_count = count0 + 1
        /\ ret.kind = "ok"
        /\ ret.val > 0

\* -------------------------------------------------------------------- C12

\* Every byte of buf is zero.
AllZero(buf) == \A i \in 1..Len(buf) : buf[i] = 0

\* C12: send_and_receive_packet does one bus write, of send_buf whole, and
\* nothing before it; then, the scratch header and all of recv_buf zeroed,
\* one 4-byte header read; then body reads, and only when the header decoded
\* to more than 4.  It never sleeps, and every bus transaction is a plain
\* write or a plain read.
C12_WriteThenRead ==
  op = "send_and_receive_packet"
    => /\ \A i \in 1..Len(bus_log) :
            /\ bus_log[i].kind \in {"write", "read"}
            /\ bus_log[i].kind = "write" <=> i = 1
       /\ pc = "sar_write" <=> bus_log = <<>>
       /\ Len(bus_log) >= 1
            => /\ bus_log[1].at = "sar_write"
               /\ bus_log[1].len = send_len
       /\ pc = "sar_header"
            => /\ Len(bus_log) = 1
               /\ bus_log[1].res = "ok"
               /\ AllZero(SubSeq(seg_recv_buf, 1, PACKET_HEADER_LENGTH))
               /\ AllZero(recv_buf)
       /\ Len(bus_log) >= 2
            => /\ bus_log[1].res = "ok"
               /\ bus_log[2].at = "sar_header"
               /\ bus_log[2].len = PACKET_HEADER_LENGTH
               /\ ( ~ IsErr(bus_log[2]) /\ DecodedLen(bus_log[2]) > PACKET_HEADER_LENGTH )
                    <=> ( Len(bus_log) >= 3 \/ pc \in {"single_read", "segment_read", "panic"} )
       /\ \A i \in 3..Len(bus_log) : bus_log[i].at \in {"single_read", "segment_read"}

C12_Witness ==
  /\ op = "send_and_receive_packet"
  /\ pc = "done"
  /\ Len(bus_log) = 4
  /\ bus_log[1].kind = "write"
  /\ bus_log[1].len = 21
  /\ DecodedLen(bus_log[2]) = 276
  /\ bus_log[3].len = 240
  /\ bus_log[4].len = 40
  /\ ret = Ok(276)

\* -------------------------------------------------------------------- C13

\* read_packet as a function: what a reader whose scratch buffer is sb and
\* whose counter is cnt does with the caller's buffer out when the bus answers
\* its reads with resp, one answer (res, data) per read.  It gives the lengths
\* of the reads issued, the return value, the caller's buffer and the counter.
Result(reads, r, out, cnt) == [reads |-> reads, ret |-> r, out |-> out, count |-> cnt]

RECURSIVE segment_loop_on(_, _, _, _, _, _)
\* The segment loop of read_sized_packet; ret is NoRet when the answers ran out.
segment_loop_on(sb, out, remaining, already, resp, reads) ==
  IF remaining <= 0 THEN [reads |-> reads, ret |-> Ok(already), out |-> out]
  ELSE
    LET n == segment_read_len(remaining)
        asked == Append(reads, n)
    IN  IF resp = <<>> THEN [reads |-> asked, ret |-> NoRet, out |-> out]
        ELSE
          LET r == Head(resp)
              buf == Store(zero_recv_packet_header(sb), r.data)
              promised_packet_len == parse_packet_header(SubSeq(buf, 1, PACKET_HEADER_LENGTH))
              start == transcribe_start_idx(already)
              tlen == transcribe_len(already, n)
          IN  IF r.res \in Errors THEN [reads |-> asked, ret |-> Err(r.res), out |-> out]
              ELSE IF IsProtocolFault(promised_packet_len)
                THEN [reads |-> asked, ret |-> Ok(0), out |-> out]
              ELSE IF already + tlen > Len(out) \/ start + tlen > Len(buf)
                THEN [reads |-> asked, ret |-> Panicked, out |-> out]
              ELSE segment_loop_on(buf, Transcribe(out, already, buf, start, tlen),
                                   remaining - body_read_len(n), already + tlen,
                                   Tail(resp), asked)

\* read_sized_packet(total, out) after the reads already issued.
read_sized_packet_on(sb, out, total, resp, reads) ==
  IF Len(out) < PACKET_HEADER_LENGTH
  THEN [reads |-> reads, ret |-> Panicked, out |-> out]
  ELSE
    LET zeroed == ZeroPrefix(out, PACKET_HEADER_LENGTH)
        n == SingleReadLen(total)
    IN  IF ~ SingleReadPath(total)
          THEN segment_loop_on(sb, zeroed, total - PACKET_HEADER_LENGTH, 0, resp, reads)
        ELSE IF n > Len(out)
          THEN [reads |-> reads, ret |-> Panicked, out |-> zeroed]
        ELSE IF resp = <<>>
          THEN [reads |-> Append(reads, n), ret |-> NoRet, out |-> zeroed]
        ELSE IF Head(resp).res \in Errors
          THEN [reads |-> Append(reads, n), ret |-> Err(Head(resp).res), out |-> zeroed]
        ELSE [reads |-> Append(reads, n), ret |-> Ok(total),
              out |-> Store(zeroed, Head(resp).data)]

read_packet_on(sb, cnt, out, resp) ==
  LET reads == << PACKET_HEADER_LENGTH >>
  IN  IF resp = <<>> THEN Result(reads, NoRet, out, cnt)
      ELSE
        LET r == Head(resp)
            buf == Store(zero_recv_packet_header(sb), r.data)
            plen == parse_packet_header(SubSeq(buf, 1, PACKET_HEADER_LENGTH))
            counted == IF CountsAsPacket(plen) THEN cnt + 1 ELSE cnt
        IN  IF r.res \in Errors THEN Result(reads, Err(r.res), out, cnt)
            ELSE IF HasBody(plen)
              THEN LET s == read_sized_packet_on(buf, out, plen, Tail(resp), reads)
                   IN  Result(s.reads, s.ret, s.out,
                              IF s.ret.kind = "ok" THEN counted ELSE cnt)
            ELSE Result(reads, Ok(plen), out, counted)

\* Two readers to compare with the one that ran: one as new() leaves it, one
\* whose scratch buffer holds the first segment of a 477-byte packet and
\* whose counter stands at 7.
FreshReader == [scratch |-> [i \in 1..SEG_RECV_BUF_LEN |-> 0], count |-> 0]

UsedReader ==
  LET pk == Packet(477, 0, "resend")
  IN  [scratch |-> SegmentBytes(pk, 0, SEG_RECV_BUF_LEN, OrigHeader(pk)), count |-> 7]

\* What the bus answered to the reads of the call, and the lengths asked for.
Responses == [i \in 1..Len(bus_log) |-> [res |-> bus_log[i].res, data |-> bus_log[i].data]]

ReadLens == [i \in 1..Len(bus_log) |-> bus_log[i].len]

\* C13: whatever went before (a call ended by a communication error or by a
\* protocol fault in the middle of a packet too), read_packet begins with a
\* 4-byte header read; and a reader with another scratch buffer and another
\* counter, given the same caller's buffer and the same answers of the bus,
\* issues the same reads, returns the same value and leaves the same bytes in
\* the caller's buffer as the reader that ran.
C13_SelfContained ==
  op = "read_packet"
    => /\ pc = "read_header" <=> bus_log = <<>>
       /\ Len(bus_log) >= 1
            => /\ IsRead(bus_log[1])
               /\ bus_log[1].at = "read_header"
               /\ bus_log[1].len = PACKET_HEADER_LENGTH
       /\ pc \in {"done", "panic"}
            => \A reader \in {FreshReader, UsedReader} :
                 LET twin == read_packet_on(reader.scratch, reader.count, buf0, Responses)
                 IN  /\ twin.reads = ReadLens
                     /\ twin.ret = ret
                     /\ twin.out = recv_buf
                     /\ twin.count - reader.count = received_packet_count - count0

\* The second read_packet, after a call that a communication error ended
\* with a segment of its packet in the scratch buffer (the packet was not
\* counted, and no fault was met): the port stores nothing.
C13_Witness ==
  /\ op = "read_packet"
  /\ pc = "done"
  /\ calls = 2
  /\ ~ prev_fault
  /\ count0 = 0
  /\ seg_recv_buf[PACKET_HEADER_LENGTH + 1] # 0
  /\ Len(bus_log) = 1
  /\ bus_log[1].res = "nostore"
  /\ ret = Ok(0)

\* -------------------------------------------------------------------- C14

\* The bytes the reads after the header read put into the caller's buffer:
\* the header of the first of them and the body bytes of all.
BytesWritten == PACKET_HEADER_LENGTH + Len(Bodies(Tail(RpLog)))

\* C14: read_sized_packet called for a total length L > 4 (L < 240: one read;
\* L >= 240: the segment loop) with a buffer of L bytes or more, every bus
\* read delivering and every segment header decoding to more than 4, returns
\* Ok(L), and L is the number of bytes it has put into the buffer.
C14_ReturnsTotalLength ==
  ( /\ pc \in {"done", "panic"}
    /\ HasBody(packet_len)
    /\ total_packet_len = packet_len
    /\ Len(recv_buf) >= total_packet_len
    /\ \A i \in 1..Len(RpLog) :
         /\ Delivered(RpLog[i])
         /\ RpLog[i].at = "segment_read" => DecodedLen(RpLog[i]) > PACKET_HEADER_LENGTH )
  => /\ pc = "done"
     /\ ret = Ok(total_packet_len)
     /\ already_read_len = total_packet_len
     /\ BytesWritten = total_packet_len
     /\ SingleReadPath(total_packet_len) <=> Len(RpLog) = 2 /\ RpLog[2].at = "single_read"

\* The boundary: 240 bytes go through the segment loop, in one segment.
C14_Witness ==
  /\ op = "send_and_receive_packet"
  /\ pc = "done"
  /\ total_packet_len = MAX_SEGMENT_READ
  /\ Len(RpLog) = 2
  /\ RpLog[2].at = "segment_read"
  /\ Delivered(RpLog[2])
  /\ ret = Ok(MAX_SEGMENT_READ)

\* -------------------------------------------------------------------- C15

\* Body bytes in a full segment, and the segments a packet of L bytes takes:
\* (L - 4) / 236 rounded up.
BodyPerSegment == MAX_SEGMENT_READ - PACKET_HEADER_LENGTH

SegmentCount(L) == ((L - PACKET_HEADER_LENGTH) + (BodyPerSegment - 1)) \div BodyPerSegment

RECURSIVE RemainingAfter(_)
\* The body bytes still to read after the first k segment reads of the
\* receive, from the lengths of those reads.
RemainingAfter(k) ==
  IF k = 0 THEN total_packet_len - PACKET_HEADER_LENGTH
  ELSE RemainingAfter(k - 1) - (RpLog[k + 1].len - PACKET_HEADER_LENGTH)

\* min(240, remaining + 4).
SegmentSize(remaining) ==
  IF remaining + PACKET_HEADER_LENGTH < MAX_SEGMENT_READ
  THEN remaining + PACKET_HEADER_LENGTH
  ELSE MAX_SEGMENT_READ

\* C15: for L >= 240, no bus error and no protocol fault, the i-th read of
\* the segment loop asks for min(240, remaining + 4) bytes and takes its size
\* less 4 off remaining_body_len, which goes down with every read, never
\* below 0, and is 0 exactly when the loop ends, after (L - 4) / 236 rounded
\* up reads; for L = 276 these are a read of 240 and a read of 40 bytes.
C15_SegmentLoopTerminates ==
  ( /\ pc \in {"segment_read", "done", "panic"}
    /\ packet_len >= MAX_SEGMENT_READ
    /\ total_packet_len = packet_len
    /\ Len(recv_buf) >= total_packet_len
    /\ \A i \in 1..Len(RpLog) :
         /\ Delivered(RpLog[i])
         /\ RpLog[i].at = "segment_read" => DecodedLen(RpLog[i]) > PACKET_HEADER_LENGTH )
  => LET k == Len(RpLog) - 1
     IN  /\ \A i \in 1..k :
              /\ RpLog[i + 1].at = "segment_read"
              /\ RpLog[i + 1].len = SegmentSize(RemainingAfter(i - 1))
              /\ RemainingAfter(i) < RemainingAfter(i - 1)
              /\ RemainingAfter(i) >= 0
         /\ remaining_body_len = RemainingAfter(k)
         /\ pc # "panic"
         /\ pc = "segment_read" => RemainingAfter(k) > 0 /\ k < SegmentCount(total_packet_len)
         /\ pc = "done" => RemainingAfter(k) = 0 /\ k = SegmentCount(total_packet_len)
         /\ (pc = "done" /\ total_packet_len = 276)
              => [i \in 1..k |-> RpLog[i + 1].len] = << 240, 40 >>

C15_Witness ==
  /\ op = "read_with_timeout"
  /\ pc = "done"
  /\ total_packet_len = 477
  /\ Len(RpLog) = 4
  /\ RpLog[2].len = 240
  /\ RpLog[3].len = 240
  /\ RpLog[4].len = 5
  /\ remaining_body_len = 0
  /\ ret = Ok(477)

\* -------------------------------------------------------------------- C16

\* A 4-byte header read of read_packet.
HeaderRead(e) == IsRead(e) /\ e.at = "read_header" /\ e.len = PACKET_HEADER_LENGTH

\* A read that ends a poll with 0 bytes: a header read that decodes to 0, or
\* a segment read on which read_sized_packet took the protocol-fault branch.
EndsEmptyPoll(e) ==
  \/ HeaderRead(e) /\ ~ IsErr(e) /\ DecodedLen(e) = 0
  \/ FaultySegment(e)

\* C16: in read_with_timeout a poll that yields 0 bytes, nothing to read or a
\* protocol fault, is followed by one delay_ms(1), and that by the next poll
\* while fewer than max_ms sleeps were taken, else by the return of Ok(0);
\* no sleep comes anywhere else.  A poll that yields n > 0 is the last thing
\* the call does: it returns Ok(n) with no sleep and no poll after it.
C16_SleepAfterEmptyPoll ==
  op = "read_with_timeout"
    => LET n == Len(bus_log)
       IN  /\ \A i \in 1..n :
                /\ EndsEmptyPoll(bus_log[i])
                     => /\ i < n
                        /\ IsSleep(bus_log[i + 1], 1)
                        /\ i + 2 <= n => HeaderRead(bus_log[i + 2])
                /\ bus_log[i].kind = "sleep"
                     => /\ i > 1
                        /\ EndsEmptyPoll(bus_log[i - 1])
                        /\ bus_log[i].len = 1
                /\ ( /\ HeaderRead(bus_log[i])
                     /\ ~ IsErr(bus_log[i])
                     /\ DecodedLen(bus_log[i]) > 0
                     /\ DecodedLen(bus_log[i]) <= PACKET_HEADER_LENGTH )
                     => /\ i = n
                        /\ pc = "done"
                        /\ ret = Ok(DecodedLen(bus_log[i]))
           /\ (n >= 1 /\ bus_log[n].kind = "sleep")
                => IF Count("sleep") < max_ms
                   THEN pc = "read_header"
                   ELSE pc = "done" /\ ret = Ok(0)
           /\ (pc = "done" /\ ret.kind = "ok" /\ ret.val > 0)
                => /\ n >= 1
                   /\ IsRead(bus_log[n])
                   /\ ~ EndsEmptyPoll(bus_log[n])
                   /\ ret.val = packet_len
           /\ ( /\ n >= 1
                /\ IsRead(bus_log[n])
                /\ bus_log[n].at \in {"single_read", "segment_read"}
                /\ ~ IsErr(bus_log[n])
                /\ ~ FaultySegment(bus_log[n]) )
                => /\ pc \in {"segment_read", "done", "panic"}
                   /\ pc = "segment_read" => remaining_body_len > 0
                   /\ pc = "done" => ret = Ok(packet_len)

\* Eight empty polls, a poll that a protocol fault ends, and the poll that
\* brings a packet.
C16_Witness ==
  /\ op = "read_with_timeout"
  /\ max_ms = 10
  /\ pc = "done"
  /\ fault
  /\ Len(bus_log) = 21
  /\ FaultySegment(bus_log[18])
  /\ IsSleep(bus_log[19], 1)
  /\ HeaderRead(bus_log[20])
  /\ Count("sleep") = 9
  /\ ret = Ok(5)

\* -------------------------------------------------------------------- C17

\* A bus read into the scratch buffer: the header read of read_packet and of
\* send_and_receive_packet, a segment read of read_sized_packet.
ScratchRead(e) == IsRead(e) /\ e.at \in {"read_header", "sar_header", "segment_read"}

\* C17: the first four bytes of the scratch buffer are zeroed before every
\* bus read into it, so that after such a read they are the four bytes the
\* read stored, and zero when it stored none.  A read that reports success
\* and stores nothing therefore decodes to 0, whatever header an earlier
\* transaction left: as a header read it makes read_packet (and
\* send_and_receive_packet) return Ok(0) with no body read and the caller's
\* buffer untouched by read_sized_packet, as a segment read it makes
\* read_sized_packet take the protocol-fault branch.
C17_ZeroedBeforeRead ==
  LET n == Len(bus_log)
  IN  /\ (n >= 1 /\ ScratchRead(bus_log[n]) /\ ~ IsErr(bus_log[n]))
           => SubSeq(seg_recv_buf, 1, PACKET_HEADER_LENGTH)
                = IF Len(bus_log[n].data) >= PACKET_HEADER_LENGTH
                  THEN SubSeq(bus_log[n].data, 1, PACKET_HEADER_LENGTH)
                  ELSE << 0, 0, 0, 0 >>
      /\ \A i \in 1..n :
           (ScratchRead(bus_log[i]) /\ bus_log[i].res = "nostore")
             => /\ DecodedLen(bus_log[i]) = 0
                /\ bus_log[i].at = "segment_read" => fault
                /\ IF op = "read_with_timeout"
                   THEN i < n /\ IsSleep(bus_log[i + 1], 1)
                   ELSE /\ i = n
                        /\ pc = "done"
                        /\ ret = Ok(0)
                        /\ bus_log[i].at = "read_header" => recv_buf = buf0
                        /\ bus_log[i].at = "sar_header" => AllZero(recv_buf)

\* The read_packet after a call that read and counted a packet, met no
\* fault and so left a header in the scratch buffer: the port stores nothing.
C17_Witness ==
  /\ op = "read_packet"
  /\ pc = "done"
  /\ calls = 2
  /\ ~ prev_fault
  /\ count0 = 1
  /\ Len(bus_log) = 1
  /\ bus_log[1].res = "nostore"
  /\ seg_recv_buf[1] = 0
  /\ ret = Ok(0)

\* -------------------------------------------------------------------- C18

\* The polls of the call so far: its header reads.
Polls == Cardinality({i \in 1..Len(bus_log) : HeaderRead(bus_log[i])})

\* C18: read_with_timeout(max_ms), max_ms up to 255, whatever the source
\* does (empty headers, packets, protocol faults, errors): it polls at most
\* max_ms times; total_delay is the number of sleeps taken, never above
\* max_ms and so never wrapped; the call goes on only while total_delay is
\* below max_ms, and has returned when it is not.
C18_BoundedWait ==
  op = "read_with_timeout"
    => /\ Polls <= max_ms
       /\ total_delay = Count("sleep")
       /\ total_delay <= max_ms
       /\ max_ms <= 255
       /\ Polls \in {total_delay, total_delay + 1}
       /\ pc \notin {"done", "panic"} => total_delay < max_ms
       /\ total_delay = max_ms => pc = "done"
       /\ pc = "read_header" => Polls = total_delay

\* The whole window of 255 ms used up, a protocol fault late in it.
C18_Witness ==
  /\ op = "read_with_timeout"
  /\ max_ms = 255
  /\ pc = "done"
  /\ fault
  /\ total_delay = 255
  /\ Polls = 255
  /\ Len(bus_log) > 510
  /\ ret = Ok(0)

\* -------------------------------------------------------------------- C19

\* C19: a read_packet or send_and_receive_packet that returns a
\* communication error has left received_packet_count as it found it,
\* whether the write, the header read, the single body read or a segment
\* read failed, and also when the header had decoded to a non-zero length.
C19_ErrorLeavesCount ==
  ( /\ op \in {"read_packet", "send_and_receive_packet"}
    /\ pc = "done"
    /\ ret.kind = "err" )
  => /\ received_packet_count = count0
     /\ Len(bus_log) >= 1
     /\ IsErr(bus_log[Len(bus_log)])
     /\ bus_log[Len(bus_log)].at
          \in {"sar_write", "read_header", "sar_header", "single_read", "segment_read"}

\* The second segment read of a 477-byte packet fails.
C19_Witness ==
  /\ op = "send_and_receive_packet"
  /\ pc = "done"
  /\ packet_len = 477
  /\ Len(bus_log) = 4
  /\ bus_log[4].at = "segment_read"
  /\ ret = Err("NACK")
  /\ received_packet_count = count0

\* -------------------------------------------------------------------- C20

\* The bytes of the caller's buffer the receive has written: the returned
\* length when the header decoded to more than 4, none otherwise.
WrittenLen == IF HasBody(packet_len) THEN ret.val ELSE 0

\* C20: after a send_and_receive_packet whose write and header read
\* succeeded and that returned Ok without a protocol fault, every byte of
\* recv_buf from the end of what was written on is 0, though the caller
\* passed a buffer with no zero in it; after such a read_packet those bytes
\* are what the caller passed.
C20_TailOfBuffer ==
  ( /\ pc = "done"
    /\ ret.kind = "ok"
    /\ ~ fault
    /\ \A i \in 1..Len(buf0) : buf0[i] # 0 )
  => /\ ( /\ op = "send_and_receive_packet"
          /\ Len(bus_log) >= 2
          /\ bus_log[1].res = "ok"
          /\ ~ IsErr(bus_log[2]) )
          => \A i \in (WrittenLen + 1)..Len(recv_buf) : recv_buf[i] = 0
     /\ op = "read_packet"
          => /\ Len(recv_buf) = Len(buf0)
             /\ \A i \in (WrittenLen + 1)..Len(recv_buf) : recv_buf[i] = buf0[i]

\* A 5-byte packet in a buffer of 480: byte 4 is the packet's, byte 5 is 0.
C20_Witness ==
  /\ op = "send_and_receive_packet"
  /\ pc = "done"
  /\ ret = Ok(5)
  /\ Len(recv_buf) = 480
  /\ buf0[6] = 170
  /\ recv_buf[5] # 0
  /\ recv_buf[6] = 0
  /\ recv_buf[480] = 0

\* -------------------------------------------------------------------- C21

\* read_sized_packet has been called in this call (total_packet_len is its
\* argument, 0 until then).
SizedCalled == total_packet_len # 0

\* C21: read_sized_packet is only ever called with total_packet_len > 4, by
\* read_packet, by read_with_timeout through it and by
\* send_and_receive_packet, whatever header the device sent: so
\* total_packet_len - 4 does not go below 0, remaining_body_len starts at 1
\* or more, and it stays at 0 or more.
C21_SizedOnlyWithBody ==
  /\ SizedCalled
       => /\ total_packet_len > PACKET_HEADER_LENGTH
          /\ total_packet_len - PACKET_HEADER_LENGTH >= 1
          /\ remaining_body_len >= 0
          /\ remaining_body_len <= total_packet_len - PACKET_HEADER_LENGTH
  /\ ( pc = "single_read" \/ (pc = "segment_read" /\ already_read_len = 0) )
       => /\ SizedCalled
          /\ total_packet_len = packet_len
          /\ remaining_body_len = total_packet_len - PACKET_HEADER_LENGTH
          /\ remaining_body_len >= 1
  /\ ( /\ pc = "done"
       /\ ret.kind = "ok"
       /\ op \in {"read_packet", "send_and_receive_packet"}
       /\ packet_len <= PACKET_HEADER_LENGTH )
       => ~ SizedCalled

\* The smallest packet with a body: read_sized_packet(5, ..) at its read.
C21_Witness ==
  /\ op = "send_and_receive_packet"
  /\ pc = "single_read"
  /\ total_packet_len = 5
  /\ remaining_body_len = 1
  /\ already_read_len = 0

====
